---- MODULE Spec2Model ----
(***************************************************************************)
(* Model of the flow-field visualisation: the seeded permutation table of  *)
(* the simplex noise (src/src/noise.ts), the grid signed-distance field    *)
(* (class SDF, src/src/noise.ts), the flow blending of FlowField.getVector *)
(* (src/src/FlowField.ts), the particle integration of Particle.update     *)
(* (src/src/Particle.ts), and the event handlers and the frame of the      *)
(* FlowFieldVisualization with its Controls (src/src/main.ts,              *)
(* src/src/Controls.ts).                                                   *)
(*                                                                         *)
(* JavaScript numbers are modelled in fixed point.  A length or a position *)
(* is an integer count of 1/DQ pixel, a dimensionless quantity (a vector   *)
(* component, a gradient, an influence) an integer count of 1/Q.  The      *)
(* three non-finite doubles are three reserved integers (Inf, NegInf,      *)
(* NaN), and the arithmetic that can meet them goes through FAdd, FScale   *)
(* and FLt, which follow IEEE 754.                                         *)
(***************************************************************************)
EXTENDS Integers, Sequences, FiniteSets, TLC

VARIABLES noise, lastSeed, sdf, inflight, ff, particle, frames, ret,
          app, heap, reads, controls, particles

\* the state of the FlowFieldVisualization and its Controls (src/src/main.ts,
\* src/src/Controls.ts): its fields, the SDF objects its uploads have made,
\* the uploads waiting for their file, the panel's config, the particles
appVars == <<app, heap, reads, controls, particles>>

vars == <<noise, lastSeed, sdf, inflight, ff, particle, frames, ret, appVars>>

-----------------------------------------------------------------------------
(* Numbers *)

\* 1/DQ pixel is the unit of lengths and positions
DQ == 10 * 10

\* 1/Q is the unit of dimensionless quantities; 0.0001 is 2/Q
Q == 2 * 10000

\* the doubles +Infinity, -Infinity and NaN
Inf == 2147483647

NegInf == -2147483647

NaN == 2147483646

IsFinite(a) == a # Inf /\ a # NegInf /\ a # NaN

Abs(a) == IF a < 0 THEN -a ELSE a

Max(a, b) == IF a >= b THEN a ELSE b

Min(a, b) == IF a <= b THEN a ELSE b

\* division of finite numbers, rounded towards zero
TDiv(a, b) == IF a >= 0 THEN a \div b ELSE -((-a) \div b)

\* Math.ceil(a / b) for a >= 0, b > 0
CeilDiv(a, b) == (a + b - 1) \div b

\* Math.abs
FAbs(a) == IF a = NaN THEN NaN ELSE IF a = NegInf \/ a = Inf THEN Inf ELSE Abs(a)

\* a + b on doubles
FAdd(a, b) ==
  IF a = NaN \/ b = NaN THEN NaN
  ELSE IF (a = Inf /\ b = NegInf) \/ (a = NegInf /\ b = Inf) THEN NaN
  ELSE IF a = Inf \/ b = Inf THEN Inf
  ELSE IF a = NegInf \/ b = NegInf THEN NegInf
  ELSE a + b

\* a * (k / w) on doubles, for a weight k / w that is finite
FScale(a, k, w) ==
  IF a = NaN THEN NaN
  ELSE IF ~IsFinite(a)
       THEN IF k = 0 THEN NaN
            ELSE IF (a = Inf) = (k > 0) THEN Inf ELSE NegInf
       ELSE TDiv(a * k, w)

\* a < b on doubles: false when either is NaN
FLt(a, b) == a # NaN /\ b # NaN /\ a < b

\* Math.max and Math.min: NaN when either argument is NaN
FMax(a, b) == IF a = NaN \/ b = NaN THEN NaN ELSE Max(a, b)

FMin(a, b) == IF a = NaN \/ b = NaN THEN NaN ELSE Min(a, b)

RECURSIVE ISqrtBits(_, _, _)
\* the largest r with r * r <= n, found bit by bit from bit b down
ISqrtBits(n, r, b) ==
  IF b = 0 THEN r
  ELSE LET c == r + b
       IN  ISqrtBits(n, IF c <= n \div c THEN c ELSE r, b \div 2)

\* floor(Math.sqrt(n)) for 0 <= n < 2^31
ISqrt(n) == ISqrtBits(n, 0, 32768)

-----------------------------------------------------------------------------
(* The permutation table: buildPermutationTable and SimplexNoise *)

\* a seed is sign * (w + f / SeedDen): Math.random() * 2147483647 has a
\* fractional part, an integer seed has f = 0
SeedDen == 2 * 2

LcgMul == 16807

LcgMod == 2147483647

\* explicit seeds are the integers -MaxSeed .. MaxSeed
MaxSeed == 60

IntSeed(k) == [neg |-> k < 0, w |-> Abs(k), f |-> 0]

IsIntegerSeed(n) == n.f = 0

\* (w * 16807) % 2147483647 for 0 <= w < 2147483647, in 32 bits
MulMod(w) ==
  LET q == LcgMod \div LcgMul
      r == LcgMod % LcgMul
      t == LcgMul * (w % q) - r * (w \div q)
  IN  IF t < 0 THEN t + LcgMod ELSE t

\* n = (n * 16807) % 2147483647: the remainder keeps the sign of n and its
\* fractional part (16807 is odd)
LcgNext(n) ==
  LET carry == (n.f * LcgMul) \div SeedDen
  IN  [neg |-> n.neg,
       w   |-> (MulMod(n.w % LcgMod) + carry) % LcgMod,
       f   |-> (n.f * LcgMul) % SeedDen]

\* j = n % (i + 1) is a valid index of p exactly when it is an integer >= 0
ValidIndex(n, i) == n.f = 0 /\ (~n.neg \/ n.w % (i + 1) = 0)

SwapIndex(n, i) == n.w % (i + 1)

\* tmp = p[i]; p[i] = p[j]; p[j] = tmp on a Uint8Array: reading an index that
\* is no valid integer index gives undefined, stored as 0, and writing to it
\* does nothing
SwapStep(p, n, i) ==
  IF ValidIndex(n, i)
  THEN LET j == SwapIndex(n, i)
       IN  [p EXCEPT ![i] = p[j], ![j] = p[i]]
  ELSE [p EXCEPT ![i] = 0]

\* one iteration of for (let i = 255; i > 0; i--) { n = ...; j = ...; swap }
ShuffleStep(st, i) ==
  LET n2 == LcgNext(st.n)
  IN  [p |-> SwapStep(st.p, n2, i), n |-> n2, ok |-> st.ok /\ ValidIndex(n2, i)]

RECURSIVE ShuffleRun(_, _, _)
\* the iterations i = hi, hi - 1, ..., lo + 1 of the loop, in this order
ShuffleRun(st, hi, lo) ==
  IF hi = lo THEN st
  ELSE IF hi = lo + 1 THEN ShuffleStep(st, hi)
  ELSE LET mid == (hi + lo) \div 2
           first == ShuffleRun(st, hi, mid)
       IN  IF first.ok \in BOOLEAN THEN ShuffleRun(first, mid, lo) ELSE first

\* the whole loop, from p[i] = i and n = seed
Shuffle(seed) ==
  ShuffleRun([p |-> [i \in 0..255 |-> i], n |-> seed, ok |-> TRUE], 255, 0)

\* every j of the shuffle is an integer with 0 <= j <= i
AllSwapsValid(seed) == Shuffle(seed).ok

buildPermutationTable(seed) ==
  LET p == Shuffle(seed).p
  IN  [k \in 0..511 |-> p[k % 256]]

\* new SimplexNoise(seed)
SimplexNoise(seed) ==
  LET perm == buildPermutationTable(seed)
  IN  [perm |-> perm, permMod12 |-> [k \in 0..511 |-> perm[k] % 12]]

\* Math.random() is k / SeedDen for some k in 0 .. SeedDen - 1, and the
\* default seed is Math.random() * 2147483647
RandomSeed(k) ==
  [neg |-> FALSE,
   w   |-> k * (LcgMod \div SeedDen) + (k * (LcgMod % SeedDen)) \div SeedDen,
   f   |-> (k * (LcgMod % SeedDen)) % SeedDen]

Randoms == 0 .. SeedDen - 1

IntSeeds == {IntSeed(k) : k \in -MaxSeed .. MaxSeed}

\* the SimplexNoise object of every seed of the model, built once
NoiseOf == [s \in IntSeeds \cup {RandomSeed(k) : k \in Randoms} |-> SimplexNoise(s)]

-----------------------------------------------------------------------------
(* FlowField: construction and regeneration *)

NullRef == "null"

SdfRef == "sdf"

\* new FlowField(scale): scale in units of 0.0001
NewFlowField(scale) ==
  [scale |-> scale, octaves |-> 1, zOffset |-> 0,
   sdf |-> NullRef, sdfStrength |-> Q, sdfFalloff |-> 50 * DQ]

\* new Float32Array(0)
EmptyArray == <<>>

\* new SDF(4) in handleSVGUpload
Resolution == 4

\* new SDF(resolution)
NewSDF(resolution) ==
  [resolution |-> resolution, gridWidth |-> 0, gridHeight |-> 0,
   grid |-> EmptyArray, gradientX |-> EmptyArray, gradientY |-> EmptyArray,
   loaded |-> FALSE]

NoParticle == [x |-> 0, y |-> 0, prevX |-> 0, prevY |-> 0, speed |-> 0,
               baseSpeed |-> 0, width |-> 0, height |-> 0]

\* the result of a call that returns nothing
NoRet == [op |-> "none"]

\* this.config of main.ts, the fields that reach the flow field and the
\* particle array: noiseScale 0.003 in units of 0.0001, noiseOctaves,
\* noiseEvolution in units of 0.0005, and particleCount
InitialConfig ==
  [noiseScale |-> 30, noiseOctaves |-> 1, noiseEvolution |-> 0,
   particleCount |-> 20000]

\* this.config refers to the object made in the constructor of main.ts, or
\* to the config object of the Controls
OwnConfig == "initialConfig"

PanelConfig == "controls.config"

\* the fields of a new FlowFieldVisualization on a width x height window;
\* length is this.particles.length after createParticles, and the variable
\* particles holds the first entries of this.particles
NewVisualization(width, height) ==
  [sdf |-> NullRef, width |-> width, height |-> height, config |-> OwnConfig,
   length |-> InitialConfig.particleCount]

\* no SDF object made yet
EmptyHeap == [r \in {} |-> NewSDF(Resolution)]

\* the classes on their own: no upload, panel input or frame takes place
Standalone ==
  /\ app = NewVisualization(2 * Resolution, 2 * Resolution)
  /\ heap = EmptyHeap
  /\ reads = 0
  /\ controls = InitialConfig
  /\ particles = <<>>

InitNoise ==
  /\ \E k \in Randoms :
       /\ noise = NoiseOf[RandomSeed(k)]
       /\ lastSeed = [value |-> RandomSeed(k), defaulted |-> TRUE]
  /\ ff = NewFlowField(30)
  /\ sdf = NewSDF(Resolution)
  /\ inflight = {}
  /\ particle = NoParticle
  /\ frames = 0
  /\ ret = NoRet
  /\ Standalone

\* new FlowField(scale, seed) with the seed given
Construct(seed) ==
  /\ noise' = NoiseOf[seed]
  /\ lastSeed' = [value |-> seed, defaulted |-> FALSE]
  /\ ff' = NewFlowField(ff.scale)
  /\ ret' = NoRet
  /\ UNCHANGED <<sdf, inflight, particle, frames, appVars>>

\* new FlowField(scale): the SimplexNoise constructor supplies the seed
ConstructDefault(k) ==
  /\ noise' = NoiseOf[RandomSeed(k)]
  /\ lastSeed' = [value |-> RandomSeed(k), defaulted |-> TRUE]
  /\ ff' = NewFlowField(ff.scale)
  /\ ret' = NoRet
  /\ UNCHANGED <<sdf, inflight, particle, frames, appVars>>

\* a regenerate that leaves zOffset where evolve put it (not the code's)
regenerateKeepsEvolution(f) == f

\* the fields of the FlowField after regenerate: evolution restarts at 0
regenerate(f) == [f EXCEPT !.zOffset = 0]

\* FlowField.regenerate(seed)
Regenerate(seed) ==
  /\ noise' = NoiseOf[seed]
  /\ lastSeed' = [value |-> seed, defaulted |-> FALSE]
  /\ ff' = regenerate(ff)
  /\ ret' = [op |-> "regenerate", seed |-> seed]
  /\ UNCHANGED <<sdf, inflight, particle, frames, appVars>>

\* FlowField.regenerate(): seed ?? Math.random() * 2147483647
RegenerateDefault(k) ==
  /\ noise' = NoiseOf[RandomSeed(k)]
  /\ lastSeed' = [value |-> RandomSeed(k), defaulted |-> TRUE]
  /\ ff' = regenerate(ff)
  /\ ret' = [op |-> "regenerate", seed |-> RandomSeed(k)]
  /\ UNCHANGED <<sdf, inflight, particle, frames, appVars>>

\* FlowField.evolve(amount), amount in units of 0.0005, capped for the model
MaxZ == 2

Evolve ==
  /\ ff.zOffset < MaxZ
  /\ ff' = [ff EXCEPT !.zOffset = @ + 1]
  /\ ret' = NoRet
  /\ UNCHANGED <<noise, lastSeed, sdf, inflight, particle, frames, appVars>>

\* FlowField.resetEvolution()
ResetEvolution ==
  /\ ff' = [ff EXCEPT !.zOffset = 0]
  /\ ret' = NoRet
  /\ UNCHANGED <<noise, lastSeed, sdf, inflight, particle, frames, appVars>>

NextNoise ==
  \/ \E s \in IntSeeds : Construct(s)
  \/ \E k \in Randoms : ConstructDefault(k)
  \/ \E s \in IntSeeds : Regenerate(s)
  \/ \E k \in Randoms : RegenerateDefault(k)
  \/ Evolve
  \/ ResetEvolution

SpecNoise == InitNoise /\ [][NextNoise]_vars

-----------------------------------------------------------------------------
(* The signed distance field: class SDF *)

\* the grids of the model are at most MaxGridW cells wide
MaxGridW == 2

\* and one, two or three cells high
GridHeights == {1, 2, 3}

TallestGrid == Cardinality(GridHeights)

\* the binary mask `inside` of a w x h grid, cell (x, y) at index y * w + x
Masks(w, h) == [0 .. w * h - 1 -> {0, 1}]

RECURSIVE ForwardScan(_, _, _, _)
\* for (let x = 1; x < w; x++) of row y
ForwardScan(dist, w, y, x) ==
  IF x >= w THEN dist
  ELSE LET idx  == y * w + x
           prev == y * w + x - 1
       IN  ForwardScan(IF dist[idx] > dist[prev] + 1
                       THEN [dist EXCEPT ![idx] = dist[prev] + 1]
                       ELSE dist, w, y, x + 1)

\* a row whose backward scan is left out (not the code's)
BackwardScanSkipped(dist, w, y, x) == dist

RECURSIVE BackwardScan(_, _, _, _)
\* for (let x = w - 2; x >= 0; x--) of row y
BackwardScan(dist, w, y, x) ==
  IF x < 0 THEN dist
  ELSE LET idx  == y * w + x
           next == y * w + x + 1
       IN  BackwardScan(IF dist[idx] > dist[next] + 1
                        THEN [dist EXCEPT ![idx] = dist[next] + 1]
                        ELSE dist, w, y, x - 1)

RECURSIVE HorizontalPass(_, _, _, _)
\* the horizontal pass, rows y .. h - 1
HorizontalPass(dist, w, h, y) ==
  IF y >= h THEN dist
  ELSE HorizontalPass(BackwardScan(ForwardScan(dist, w, y, 1), w, y, w - 2),
                      w, h, y + 1)

\* the intersections s and the entries of z are quotients of integers; d = 0
\* is NaN
Rat(n, d) == [n |-> n, d |-> d]

NaNRat == Rat(0, 0)

\* a <= b on doubles
RatLe(a, b) == a.d # 0 /\ b.d # 0 /\ a.n * b.d <= b.n * a.d

\* a < y on doubles, y an integer
RatLtInt(a, y) == a.d # 0 /\ a.n < y * a.d

\* ((f[q] + q * q) - (f[v[k]] + v[k] * v[k])) / (2 * q - 2 * v[k]); v[-1] is
\* undefined and makes it NaN
Intersect(f, v, k, q) ==
  IF k < 0 THEN NaNRat
  ELSE Rat((f[q] + q * q) - (f[v[k]] + v[k] * v[k]), 2 * q - 2 * v[k])

RECURSIVE PopWhile(_, _, _, _, _)
\* let s = ...; while (s <= z[k]) { k--; s = ... }
PopWhile(f, v, z, k, q) ==
  LET s == Intersect(f, v, k, q)
  IN  IF k >= 0 /\ RatLe(s, z[k]) THEN PopWhile(f, v, z, k - 1, q)
      ELSE [k |-> k, s |-> s]

RECURSIVE Envelope(_, _, _, _, _)
\* for (let q = 1; q < h; q++): e = [k, v, z, inBounds]
Envelope(f, e, inf, q, h) ==
  IF q >= h THEN e
  ELSE LET r  == PopWhile(f, e.v, e.z, e.k, q)
           k2 == r.k + 1
       IN  Envelope(f,
                    [k |-> k2,
                     v |-> [e.v EXCEPT ![k2] = q],
                     z |-> [e.z EXCEPT ![k2] = r.s, ![k2 + 1] = Rat(inf, 1)],
                     inBounds |-> e.inBounds /\ r.k >= 0],
                    inf, q + 1, h)

RECURSIVE FillK(_, _, _, _)
\* while (z[k + 1] < y) k++; z[h + 1] is undefined and ends the loop
FillK(z, k, y, h) ==
  IF k + 1 <= h /\ RatLtInt(z[k + 1], y) THEN FillK(z, k + 1, y, h) ELSE k

RECURSIVE FillColumn(_, _, _, _, _, _, _)
\* for (let y = 0; y < h; y++) of column x: c = [dist, inBounds]
FillColumn(c, f, e, w, h, x, ky) ==
  LET y == ky[2]
  IN  IF y >= h THEN c
      ELSE LET k  == FillK(e.z, ky[1], y, h)
               dy == y - e.v[k]
           IN  IF k > h - 1
               THEN FillColumn([dist |-> [c.dist EXCEPT ![y * w + x] = NaN],
                                inBounds |-> FALSE], f, e, w, h, x, <<k, y + 1>>)
               ELSE FillColumn([c EXCEPT !.dist[y * w + x] = f[e.v[k]] + dy * dy],
                               f, e, w, h, x, <<k, y + 1>>)

RECURSIVE VerticalPass(_, _, _, _, _)
\* for (let x = 0; x < w; x++): c = [dist, inBounds, v, z], the scratch
\* arrays v and z being shared by the columns
VerticalPass(c, w, h, inf, x) ==
  IF x >= w THEN c
  ELSE LET f  == [y \in 0 .. h - 1 |-> c.dist[y * w + x] * c.dist[y * w + x]]
           e0 == [k |-> 0,
                  v |-> [c.v EXCEPT ![0] = 0],
                  z |-> [c.z EXCEPT ![0] = Rat(-inf, 1), ![1] = Rat(inf, 1)],
                  inBounds |-> TRUE]
           e  == Envelope(f, e0, inf, 1, h)
           d  == FillColumn([dist |-> c.dist, inBounds |-> c.inBounds /\ e.inBounds],
                            f, e, w, h, x, <<0, 0>>)
       IN  VerticalPass([dist |-> d.dist, inBounds |-> d.inBounds,
                         v |-> e.v, z |-> e.z], w, h, inf, x + 1)

\* SDF.distanceTransform2D: the transformed grid, and whether every index of
\* the scratch arrays was in bounds
distanceTransform2D(dist, w, h) ==
  LET inf == (w + h) * (w + h)
      c   == VerticalPass([dist |-> HorizontalPass(dist, w, h, 0),
                           inBounds |-> TRUE,
                           v |-> [y \in 0 .. h - 1 |-> 0],
                           z |-> [y \in 0 .. h |-> Rat(0, 1)]], w, h, inf, 0)
  IN  [dist |-> c.dist, inBounds |-> c.inBounds]

\* Math.sqrt(n) in units of 1/DQ
SqrtDQ(n) == IF n = NaN THEN NaN ELSE ISqrt(n * DQ * DQ)

\* the body of SDF.computeDistanceField for a sentinel inf: distOutside is 0
\* on the inside cells, distInside is 0 on the outside cells
SignedDistances(inside, w, h, resolution, inf) ==
  LET distOutside == distanceTransform2D(
                       [i \in 0 .. w * h - 1 |-> IF inside[i] = 1 THEN 0 ELSE inf],
                       w, h).dist
      distInside  == distanceTransform2D(
                       [i \in 0 .. w * h - 1 |-> IF inside[i] = 1 THEN inf ELSE 0],
                       w, h).dist
  IN  [i \in 0 .. w * h - 1 |->
         LET dOut == FScale(SqrtDQ(distOutside[i]), resolution, 1)
             dIn  == FScale(SqrtDQ(distInside[i]), resolution, 1)
         IN  IF inside[i] = 1 THEN FScale(dIn, -1, 1) ELSE dOut]

\* a distance field whose sentinel is 0 instead of w + h
computeDistanceFieldZeroSentinel(inside, w, h, resolution) ==
  SignedDistances(inside, w, h, resolution, 0)

\* SDF.computeDistanceField: const INF = w + h
computeDistanceField(inside, w, h, resolution) ==
  SignedDistances(inside, w, h, resolution, w + h)

\* (a - b) / (step * resolution) in units of 1/Q, a and b in units of 1/DQ
GradientQuotient(a, b, step, resolution) ==
  IF a = NaN \/ b = NaN THEN NaN
  ELSE IF step * resolution = 0
       THEN IF a = b THEN NaN ELSE IF a > b THEN Inf ELSE NegInf
       ELSE TDiv((a - b) * Q, step * resolution * DQ)

\* SDF.computeGradients
computeGradients(grid, w, h, resolution) ==
  [gradientX |->
     [idx \in 0 .. w * h - 1 |->
        LET x  == idx % w
            y  == idx \div w
            x0 == Max(0, x - 1)
            x1 == Min(w - 1, x + 1)
        IN  GradientQuotient(grid[y * w + x1], grid[y * w + x0], x1 - x0, resolution)],
   gradientY |->
     [idx \in 0 .. w * h - 1 |->
        LET x  == idx % w
            y  == idx \div w
            y0 == Max(0, y - 1)
            y1 == Min(h - 1, y + 1)
        IN  GradientQuotient(grid[y1 * w + x], grid[y0 * w + x], y1 - y0, resolution)]]

\* the three grids of a loaded field: this.computeGradients() reads this.grid
WithGradients(grid, w, h, resolution) ==
  [grid |-> grid] @@ computeGradients(grid, w, h, resolution)

\* this.grid = this.computeDistanceField(inside); this.computeGradients()
ComputeGrids(inside, w, h, resolution) ==
  WithGradients(computeDistanceField(inside, w, h, resolution), w, h, resolution)

\* the grids of every mask of the model at the resolution of main.ts,
\* computed once
GridsOf ==
  [w \in 1 .. MaxGridW |-> [h \in GridHeights |->
     [m \in Masks(w, h) |-> ComputeGrids(m, w, h, Resolution)]]]

\* the assignments of fromSVG to the grids and to loaded
SetGrids(s, g) ==
  [s EXCEPT !.grid = g.grid, !.gradientX = g.gradientX,
            !.gradientY = g.gradientY, !.loaded = TRUE]

\* the second half of SDF.fromSVG, from the mask on
BuildGrids(s, inside) == SetGrids(s, GridsOf[s.gridWidth][s.gridHeight][inside])

\* grid[i] of a Float32Array: undefined (NaN in arithmetic) off the array
ArrayRead(grid, i) == IF i \in DOMAIN grid THEN grid[i] ELSE NaN

\* SDF.getGridValue
getGridValue(s, grid, x, y) ==
  IF x < 0 \/ x >= s.gridWidth \/ y < 0 \/ y >= s.gridHeight
  THEN Inf
  ELSE ArrayRead(grid, y * s.gridWidth + x)

\* SDF.sampleBilinear at the position (x, y) in units of 1/DQ pixel: gx is
\* x / (resolution * DQ), its fraction fx is (x % cell) / cell
sampleBilinear(s, grid, x, y) ==
  LET cell == s.resolution * DQ
      x0   == x \div cell
      y0   == y \div cell
      x1   == Min(x0 + 1, s.gridWidth - 1)
      y1   == Min(y0 + 1, s.gridHeight - 1)
      fx   == x % cell
      fy   == y % cell
      v00  == getGridValue(s, grid, x0, y0)
      v10  == getGridValue(s, grid, x1, y0)
      v01  == getGridValue(s, grid, x0, y1)
      v11  == getGridValue(s, grid, x1, y1)
      v0   == FAdd(FScale(v00, cell - fx, cell), FScale(v10, fx, cell))
      v1   == FAdd(FScale(v01, cell - fx, cell), FScale(v11, fx, cell))
  IN  FAdd(FScale(v0, cell - fy, cell), FScale(v1, fy, cell))

\* SDF.getDistance
getDistance(s, x, y) ==
  IF ~s.loaded THEN Inf ELSE sampleBilinear(s, s.grid, x, y)

RECURSIVE ScaleUp(_, _)
\* (a, b) doubled until the larger magnitude is at least 16384
ScaleUp(a, b) ==
  IF Max(Abs(a), Abs(b)) >= 16384 THEN <<a, b>> ELSE ScaleUp(2 * a, 2 * b)

RECURSIVE ScaleDown(_, _)
\* (a, b) halved until the larger magnitude is at most 32767
ScaleDown(a, b) ==
  IF Max(Abs(a), Abs(b)) <= 32767 THEN <<a, b>>
  ELSE ScaleDown(TDiv(a, 2), TDiv(b, 2))

\* (a / len, b / len) with len = Math.sqrt(a * a + b * b), for finite a, b
\* not both 0: the quotient does not depend on the scale of (a, b), which
\* is brought to 15 bits first so that the squares fit
Normalize(a, b) ==
  LET up  == ScaleUp(a, b)
      sc  == ScaleDown(up[1], up[2])
      len == ISqrt(sc[1] * sc[1] + sc[2] * sc[2])
  IN  [x |-> TDiv(sc[1] * Q, len), y |-> TDiv(sc[2] * Q, len)]

\* Math.sqrt(a * a + b * b) < 0.0001, a and b in units of 1/Q (0.0001 is 2/Q)
LenBelowEps(a, b) == Abs(a) < 2 /\ Abs(b) < 2 /\ 10000 * 10000 * (a * a + b * b) < Q * Q

\* Math.sqrt(a * a + b * b) > 0.0001
LenAboveEps(a, b) ==
  \/ Abs(a) > 2
  \/ Abs(b) > 2
  \/ 10000 * 10000 * (a * a + b * b) > Q * Q

\* SDF.getGradient
getGradient(s, x, y) ==
  IF ~s.loaded THEN [x |-> 0, y |-> 0]
  ELSE LET gradX == sampleBilinear(s, s.gradientX, x, y)
           gradY == sampleBilinear(s, s.gradientY, x, y)
       IN  IF gradX = NaN \/ gradY = NaN THEN [x |-> NaN, y |-> NaN]
           ELSE IF ~IsFinite(gradX) \/ ~IsFinite(gradY)
                THEN [x |-> IF IsFinite(gradX) THEN 0 ELSE NaN,
                      y |-> IF IsFinite(gradY) THEN 0 ELSE NaN]
                ELSE IF LenBelowEps(gradX, gradY) THEN [x |-> 0, y |-> 0]
                     ELSE Normalize(gradX, gradY)

\* canvas sizes in pixels, one for each grid width and height of the model:
\* multiples of the resolution and sizes that Math.ceil rounds up
CanvasWidths == {w * Resolution - (w % 2) : w \in 1 .. MaxGridW}

CanvasHeights == {h * Resolution - (h % 2) : h \in GridHeights}

\* sampled positions, in units of 1/DQ pixel: left of the grid by more and
\* by less than a cell, inside the first cell, on a cell boundary, and at
\* the far edge of the largest grid
SampleXs == {-5 * DQ, -DQ, DQ, MaxGridW * Resolution * DQ}

SampleYs == {-DQ, 0, 2 * DQ, TallestGrid * Resolution * DQ}

\* SDF.fromSVG up to its await: the grid size is set at once, on a new
\* field and on one that holds the grids of an earlier call alike.  One
\* call at a time is suspended on the field
FromSVGCall(cw, ch) ==
  /\ SdfRef \notin inflight
  /\ sdf' = [sdf EXCEPT !.gridWidth = CeilDiv(cw, sdf.resolution),
                        !.gridHeight = CeilDiv(ch, sdf.resolution)]
  /\ inflight' = inflight \cup {SdfRef}
  /\ ret' = [op |-> "fromSVGCall"]
  /\ UNCHANGED <<noise, lastSeed, ff, particle, frames, appVars>>

\* SDF.fromSVG after img.onload: the rasterizer's pixels give the mask
FromSVGLoad(inside) ==
  /\ SdfRef \in inflight
  /\ sdf' = BuildGrids(sdf, inside)
  /\ inflight' = inflight \ {SdfRef}
  /\ ret' = [op |-> "fromSVG", inside |-> inside]
  /\ UNCHANGED <<noise, lastSeed, ff, particle, frames, appVars>>

\* SDF.fromSVG after img.onerror: the promise rejects
FromSVGError ==
  /\ SdfRef \in inflight
  /\ inflight' = inflight \ {SdfRef}
  /\ ret' = [op |-> "fromSVGError"]
  /\ UNCHANGED <<noise, lastSeed, sdf, ff, particle, frames, appVars>>

\* SDF.clear
Clear ==
  /\ sdf' = [sdf EXCEPT !.grid = EmptyArray, !.gradientX = EmptyArray,
                        !.gradientY = EmptyArray, !.loaded = FALSE]
  /\ ret' = [op |-> "clear"]
  /\ UNCHANGED <<noise, lastSeed, inflight, ff, particle, frames, appVars>>

\* SDF.getDistance(x, y)
GetDistance(x, y) ==
  /\ ret' = [op |-> "getDistance", x |-> x, y |-> y, value |-> getDistance(sdf, x, y)]
  /\ UNCHANGED <<noise, lastSeed, sdf, inflight, ff, particle, frames,
                 appVars>>

\* SDF.getGradient(x, y)
GetGradient(x, y) ==
  /\ ret' = [op |-> "getGradient", x |-> x, y |-> y, value |-> getGradient(sdf, x, y)]
  /\ UNCHANGED <<noise, lastSeed, sdf, inflight, ff, particle, frames,
                 appVars>>

InitSDF ==
  /\ noise = NoiseOf[IntSeed(1)]
  /\ lastSeed = [value |-> IntSeed(1), defaulted |-> FALSE]
  /\ sdf = NewSDF(Resolution)
  /\ inflight = {}
  /\ ff = NewFlowField(30)
  /\ particle = NoParticle
  /\ frames = 0
  /\ ret = NoRet
  /\ Standalone

\* every mask, built on a field that holds no grids
NextSDF ==
  \/ \E cw \in CanvasWidths, ch \in CanvasHeights :
       ~sdf.loaded /\ FromSVGCall(cw, ch)
  \/ \E m \in Masks(sdf.gridWidth, sdf.gridHeight) : FromSVGLoad(m)
  \/ FromSVGError
  \/ Clear
  \/ \E x \in SampleXs, y \in SampleYs : GetDistance(x, y)
  \/ \E x \in SampleXs, y \in SampleYs : GetGradient(x, y)

SpecSDF == InitSDF /\ [][NextSDF]_vars

\* the masks of a blank image and of one that covers the whole canvas
UniformMasks(w, h) == {[i \in 0 .. w * h - 1 |-> b] : b \in {0, 1}}

\* fromSVG called again on a field, built or not, with clear, failures and
\* samples in between
NextRebuild ==
  \/ \E cw \in CanvasWidths, ch \in CanvasHeights : FromSVGCall(cw, ch)
  \/ \E m \in UniformMasks(sdf.gridWidth, sdf.gridHeight) : FromSVGLoad(m)
  \/ FromSVGError
  \/ Clear
  \/ \E x \in SampleXs, y \in SampleYs : GetDistance(x, y)
  \/ \E x \in SampleXs, y \in SampleYs : GetGradient(x, y)

SpecRebuild == InitSDF /\ [][NextRebuild]_vars

-----------------------------------------------------------------------------
(* FlowField: the boundary blend of getVector and its setters *)

\* -a on doubles
FNeg(a) == FScale(a, -1, 1)

\* the directions (Math.cos(angle), Math.sin(angle)) of the model, in units
\* of 1/Q: getAngle returns an angle between 0 and 2 * pi, and these are
\* directions whose two components are whole numbers of 1/Q
Directions ==
  {[x |-> Q, y |-> 0], [x |-> -Q, y |-> 0], [x |-> 0, y |-> Q],
   [x |-> 3 * (Q \div 5), y |-> -4 * (Q \div 5)]}

\* the blend condition without its test of the gradient
NearBoundaryAnyGradient(f, distance, gradient) ==
  FLt(FAbs(distance), f.sdfFalloff)

\* absDistance < this.sdfFalloff && (gradient.x !== 0 || gradient.y !== 0)
NearBoundary(f, distance, gradient) ==
  /\ FLt(FAbs(distance), f.sdfFalloff)
  /\ (gradient.x # 0 \/ gradient.y # 0)

\* (1 - t * t) * this.sdfStrength with t = absDistance / this.sdfFalloff, for
\* a finite distance below the falloff
Influence(f, distance) ==
  LET t == (Abs(distance) * Q) \div f.sdfFalloff
  IN  ((Q - (t * t) \div Q) * f.sdfStrength) \div Q

\* the tangent: the gradient inside the shape, outside it the perpendicular
\* that has dot >= 0 with the flow v; a NaN dot takes the else branch
Tangent(distance, gradient, v) ==
  IF FLt(distance, 0) THEN gradient
  ELSE IF gradient.x = NaN \/ gradient.y = NaN
       THEN [x |-> gradient.y, y |-> FNeg(gradient.x)]
       ELSE IF v.x * (-gradient.y) + v.y * gradient.x >= 0
            THEN [x |-> -gradient.y, y |-> gradient.x]
            ELSE [x |-> gradient.y, y |-> -gradient.x]

\* vx * (1 - influence) + tangentX * influence
Mix(a, t, influence) ==
  FAdd(FScale(a, Q - influence, Q), FScale(t, influence, Q))

\* the two assignments that blend the flow with the tangent
BlendWith(v, tangent, influence) ==
  [x |-> Mix(v.x, tangent.x, influence), y |-> Mix(v.y, tangent.y, influence)]

\* the body of the blend condition
Blend(f, distance, gradient, v) ==
  BlendWith(v, Tangent(distance, gradient, v), Influence(f, distance))

\* the blend of getVector once distance and gradient are sampled
Steer(f, distance, gradient, v) ==
  IF NearBoundary(f, distance, gradient)
  THEN Blend(f, distance, gradient, v)
  ELSE v

\* const len = Math.sqrt(vx * vx + vy * vy); if (len > 0.0001) { vx /= len;
\* vy /= len }: a NaN length fails the test
Renormalize(v) ==
  IF v.x = NaN \/ v.y = NaN THEN v
  ELSE IF LenAboveEps(v.x, v.y) THEN Normalize(v.x, v.y)
       ELSE v

\* FlowField.getVector(x, y), base being the direction of getAngle(x, y); at
\* a NaN position the angle and so the vector are NaN
getVector(f, s, x, y, base) ==
  IF x = NaN \/ y = NaN THEN [x |-> NaN, y |-> NaN]
  ELSE Renormalize(IF f.sdf # NullRef /\ s.loaded
                   THEN Steer(f, getDistance(s, x, y), getGradient(s, x, y), base)
                   ELSE base)

\* canvas sizes of the uploads, in pixels: grids one and two cells wide
FlowCanvasWidths == {Resolution, 2 * Resolution}

FlowCanvasHeights == {2 * Resolution}

\* arguments of setSDFStrength: below and above the clamp, the default, and
\* 0.5008
Strengths == {-Q, Q \div 2 + 16, Q, 3 * Q}

\* arguments of setSDFFalloff, in units of 1/DQ pixel: below the clamp, and
\* the default
Falloffs == {0, 50 * DQ}

\* sampled positions, in units of 1/DQ pixel
FlowXs == {-DQ, DQ, 3 * DQ}

FlowYs == {0, 2 * DQ}

\* FlowField.setSDF(sdf)
SetSDF(ref) ==
  /\ ff' = [ff EXCEPT !.sdf = ref]
  /\ ret' = NoRet
  /\ UNCHANGED <<noise, lastSeed, sdf, inflight, particle, frames, appVars>>

\* FlowField.setSDFStrength(strength)
SetSDFStrength(strength) ==
  /\ ff' = [ff EXCEPT !.sdfStrength = FMax(0, FMin(2 * Q, strength))]
  /\ ret' = NoRet
  /\ UNCHANGED <<noise, lastSeed, sdf, inflight, particle, frames, appVars>>

\* FlowField.setSDFFalloff(falloff)
SetSDFFalloff(falloff) ==
  /\ ff' = [ff EXCEPT !.sdfFalloff = FMax(DQ, falloff)]
  /\ ret' = NoRet
  /\ UNCHANGED <<noise, lastSeed, sdf, inflight, particle, frames, appVars>>

\* FlowField.getVector(x, y)
GetVector(x, y, base) ==
  /\ ret' = [op |-> "getVector", x |-> x, y |-> y, base |-> base,
             value |-> getVector(ff, sdf, x, y, base)]
  /\ UNCHANGED <<noise, lastSeed, sdf, inflight, ff, particle, frames,
                 appVars>>

\* FlowField.setOctaves(octaves)
SetOctaves(octaves) ==
  /\ ff' = [ff EXCEPT !.octaves = FMax(1, FMin(8, octaves))]
  /\ ret' = [op |-> "setOctaves", arg |-> octaves]
  /\ UNCHANGED <<noise, lastSeed, sdf, inflight, particle, frames, appVars>>

\* arguments of the setters, any number: below, inside and above the range,
\* the infinities and NaN
OctaveArgs == {NegInf, -1, 0, 1, 2, 3, 5, 8, 9, 99, Inf, NaN}

StrengthArgs == {NegInf, -Q, 0, Q \div 2, Q, 2 * Q, 3 * Q, Inf, NaN}

FalloffArgs == {NegInf, 0, DQ, 50 * DQ, 200 * DQ, Inf, NaN}

NextSetters ==
  \/ \E octaves \in OctaveArgs : SetOctaves(octaves)
  \/ \E strength \in StrengthArgs : SetSDFStrength(strength)
  \/ \E falloff \in FalloffArgs : SetSDFFalloff(falloff)

SpecSetters == InitSDF /\ [][NextSetters]_vars

\* as in handleSVGUpload, fromSVG is called on a field that holds no grids
NextFlow ==
  \/ \E cw \in FlowCanvasWidths, ch \in FlowCanvasHeights :
       ~sdf.loaded /\ FromSVGCall(cw, ch)
  \/ \E m \in Masks(sdf.gridWidth, sdf.gridHeight) : FromSVGLoad(m)
  \/ Clear
  \/ \E ref \in {NullRef, SdfRef} : SetSDF(ref)
  \/ \E strength \in Strengths : SetSDFStrength(strength)
  \/ \E falloff \in Falloffs : SetSDFFalloff(falloff)
  \/ \E x \in FlowXs, y \in FlowYs, base \in Directions : GetVector(x, y, base)

SpecFlow == InitSDF /\ [][NextFlow]_vars

-----------------------------------------------------------------------------
(* FlowField.getAngle: fractal noise *)

\* the amplitude of the first octave in the model's unit: 1 is 128/128, and
\* the eighth octave has amplitude 1/128
UnitAmplitude == 128

\* FlowField.noise3D from its three noise2D samples, in units of 1/Q
noise3D(t) == TDiv(t[1] + t[2] + t[3], 3)

\* the number of passes of for (let i = 0; i < this.octaves; i++): none when
\* octaves is NaN
Passes(octaves) == IF FLt(0, octaves) THEN octaves ELSE 0

RECURSIVE Octaves(_, _, _, _, _)
\* the loop of getAngle from pass i on: samples[i] holds the noise2D values
\* of pass i; the result is noiseValue and maxValue in units of 1/128
Octaves(samples, i, n, amplitude, acc) ==
  IF i >= n THEN acc
  ELSE Octaves(samples, i + 1, n, amplitude \div 2,
               [noiseValue |-> acc.noiseValue + amplitude * noise3D(samples[i]),
                maxValue |-> acc.maxValue + amplitude])

\* noiseValue /= maxValue: 0 / 0 is NaN
Normalized(acc) ==
  IF acc.maxValue = 0 THEN NaN ELSE TDiv(acc.noiseValue, acc.maxValue)

\* (noiseValue + 1) * Math.PI, in units of pi / Q
Angle(normalized) == FAdd(normalized, Q)

\* FlowField.getAngle for the given noise2D samples
getAngle(f, samples) ==
  Angle(Normalized(Octaves(samples, 0, Passes(f.octaves), UnitAmplitude,
                           [noiseValue |-> 0, maxValue |-> 0])))

\* FlowField.getAngle(x, y): position, scale, zOffset and the noise table
\* give the samples
GetAngle(samples) ==
  /\ ret' = [op |-> "getAngle", value |-> getAngle(ff, samples),
             maxValue |-> Octaves(samples, 0, Passes(ff.octaves), UnitAmplitude,
                                  [noiseValue |-> 0, maxValue |-> 0]).maxValue]
  /\ UNCHANGED <<noise, lastSeed, sdf, inflight, ff, particle, frames, appVars>>

\* the noise2D samples of one pass: all at one end of [-1,1], or spread
SampleTriples == {<<-Q, -Q, -Q>>, <<Q, Q, Q>>, <<Q, -Q, Q \div 2>>}

\* octaves 1 to 8 of setOctaves give at most 8 passes
MostPasses == 8

\* the first passes take every triple; the later ones repeat one of them
SampleRuns ==
  {[i \in 0 .. MostPasses - 1 |-> IF i < 3 THEN h[i] ELSE h[3]] :
     h \in [0 .. 3 -> SampleTriples]}

NextAngle ==
  \/ \E octaves \in OctaveArgs : SetOctaves(octaves)
  \/ \E samples \in SampleRuns : GetAngle(samples)

SpecAngle == InitSDF /\ [][NextAngle]_vars

-----------------------------------------------------------------------------
(* Particle *)

\* new Particle(width, height, speed, speedVariation), lengths in units of
\* 1/DQ pixel: dev is (Math.random() - 0.5) * 2 * speedVariation, x is
\* Math.random() * width and y is Math.random() * height
NewParticle(width, height, speed, dev, x, y) ==
  [x |-> x, y |-> y, prevX |-> x, prevY |-> y, speed |-> speed + dev,
   baseSpeed |-> speed, width |-> width, height |-> height]

\* this.x += vector.x * this.speed
Advance(x, vx, speed) == FAdd(x, FScale(vx, speed, Q))

\* the wrap of one axis without its first test
WrapUpperOnly(x, width) == IF FLt(width, x) THEN 0 ELSE x

\* if (this.x < 0) this.x = this.width; if (this.x > this.width) this.x = 0
Wrap(x, width) ==
  LET a == IF FLt(x, 0) THEN width ELSE x
  IN  IF FLt(width, a) THEN 0 ELSE a

\* one of the two tests of the wrap held for the advanced coordinate x
Wrapped(x, width) == FLt(x, 0) \/ FLt(width, x)

\* if (Math.abs(this.x - this.prevX) > this.width / 2) this.prevX = this.x
Unstreak(x, prevX, width) ==
  IF x # NaN /\ prevX # NaN /\ 2 * Abs(x - prevX) > width THEN x ELSE prevX

\* the end of Particle.update, x and y being the wrapped coordinates
Settle(p, x, y) ==
  [p EXCEPT !.x = x, !.y = y,
            !.prevX = Unstreak(x, p.x, p.width),
            !.prevY = Unstreak(y, p.y, p.height)]

\* Particle.update for the flow vector v at the particle's position
update(p, v) ==
  Settle(p, Wrap(Advance(p.x, v.x, p.speed), p.width),
            Wrap(Advance(p.y, v.y, p.speed), p.height))

\* canvas and particle bounds, in pixels
BoundWidths == {Resolution, 2 * Resolution}

BoundHeights == {2 * Resolution}

\* draws of a speed: particleSpeed of the panel (0.1 to 10) in units of 1/DQ
\* pixel, and the deviation that the variation (0 to 5) adds to it; the
\* speeds are -4 and 8 pixels a frame
SpeedDraws ==
  {[speed |-> DQ \div 2, dev |-> -(9 * DQ) \div 2], [speed |-> 8 * DQ, dev |-> 0]}

\* values of Math.random() * width and Math.random() * height
StartXs(width) == {1, width \div 2 + DQ}

StartYs(height) == {height \div 4}

\* the mask of an upload whose shape covers the left column of the grid
LeftColumn(w, h) == [i \in 0 .. w * h - 1 |-> IF i % w = 0 THEN 1 ELSE 0]

\* the animation runs MaxFrames frames
MaxFrames == 2

\* new Particle(width, height, speed, speedVariation)
Spawn(width, height, speed, dev) ==
  /\ particle = NoParticle
  /\ \E x \in StartXs(width), y \in StartYs(height) :
       particle' = NewParticle(width, height, speed, dev, x, y)
  /\ ret' = NoRet
  /\ UNCHANGED <<noise, lastSeed, sdf, inflight, ff, frames, appVars>>

\* the assignments of Particle.update for the sampled vector v
UpdateWith(v) ==
  /\ particle' = update(particle, v)
  /\ ret' = [op |-> "update", vector |-> v, fromX |-> particle.x,
             fromY |-> particle.y,
             wrappedX |-> Wrapped(Advance(particle.x, v.x, particle.speed),
                                  particle.width),
             wrappedY |-> Wrapped(Advance(particle.y, v.y, particle.speed),
                                  particle.height)]

\* Particle.update(flowField), base being the direction of getAngle at the
\* particle
Update(base) ==
  /\ particle # NoParticle
  /\ frames < MaxFrames
  /\ UpdateWith(getVector(ff, sdf, particle.x, particle.y, base))
  /\ frames' = frames + 1
  /\ UNCHANGED <<noise, lastSeed, sdf, inflight, ff, appVars>>

\* Particle.reset()
Reset ==
  /\ particle # NoParticle
  /\ \E x \in StartXs(particle.width), y \in StartYs(particle.height) :
       particle' = [particle EXCEPT !.x = x, !.y = y, !.prevX = x, !.prevY = y]
  /\ ret' = NoRet
  /\ UNCHANGED <<noise, lastSeed, sdf, inflight, ff, frames, appVars>>

\* Particle.setBounds(width, height)
SetBounds(width, height) ==
  /\ particle # NoParticle
  /\ particle' = [particle EXCEPT !.width = width, !.height = height]
  /\ ret' = NoRet
  /\ UNCHANGED <<noise, lastSeed, sdf, inflight, ff, frames, appVars>>

\* Particle.setSpeed(speed, variation)
SetSpeed(speed, dev) ==
  /\ particle # NoParticle
  /\ particle' = [particle EXCEPT !.baseSpeed = speed, !.speed = speed + dev]
  /\ ret' = NoRet
  /\ UNCHANGED <<noise, lastSeed, sdf, inflight, ff, frames, appVars>>

NextParticle ==
  \/ \E w \in BoundWidths, h \in BoundHeights, d \in SpeedDraws :
       Spawn(w * DQ, h * DQ, d.speed, d.dev)
  \/ \E base \in Directions : Update(base)
  \/ Reset
  \/ \E w \in BoundWidths, h \in BoundHeights : SetBounds(w * DQ, h * DQ)
  \/ \E d \in SpeedDraws : SetSpeed(d.speed, d.dev)
  \/ \E cw \in BoundWidths, ch \in BoundHeights :
       ~sdf.loaded /\ FromSVGCall(cw, ch)
  \/ FromSVGLoad(LeftColumn(sdf.gridWidth, sdf.gridHeight))
  \/ SetSDF(SdfRef)

SpecParticle == InitSDF /\ [][NextParticle]_vars

-----------------------------------------------------------------------------
(* FlowFieldVisualization: SVG uploads, regenerate, clear and resize *)

\* the uploads of a run make at most MaxUploads SDF objects
MaxUploads == 2

\* the n-th SDF object made by handleSVGUpload
Ref(n) == "sdf" \o ToString(n)

Made == Cardinality(DOMAIN heap)

\* this.config
Config == IF app.config = PanelConfig THEN controls ELSE InitialConfig

\* Particle.reset(): x is Math.random() * width, y is Math.random() * height
ResetDraws(p) ==
  {[p EXCEPT !.x = x, !.y = y, !.prevX = x, !.prevY = y] :
     x \in StartXs(p.width), y \in StartYs(p.height)}

\* this.particles.forEach(p => p.reset())
AllReset(ps) ==
  {q \in [DOMAIN ps -> UNION {ResetDraws(ps[i]) : i \in DOMAIN ps}] :
     \A i \in DOMAIN ps : q[i] \in ResetDraws(ps[i])}

\* this.particles.forEach(p => p.setBounds(width, height))
AllBound(ps, width, height) ==
  [i \in DOMAIN ps |-> [ps[i] EXCEPT !.width = width, !.height = height]]

\* SDF.fromSVG up to its await, on the field s
fromSVGCall(s, cw, ch) ==
  [s EXCEPT !.gridWidth = CeilDiv(cw, s.resolution),
            !.gridHeight = CeilDiv(ch, s.resolution)]

\* SDF.clear on the field s
clear(s) ==
  [s EXCEPT !.grid = EmptyArray, !.gradientX = EmptyArray,
            !.gradientY = EmptyArray, !.loaded = FALSE]

\* handleSVGUpload up to await file.text()
UploadStart ==
  /\ reads + Made < MaxUploads
  /\ reads' = reads + 1
  /\ ret' = NoRet
  /\ UNCHANGED <<noise, lastSeed, sdf, inflight, ff, particle, frames,
                 app, heap, controls, particles>>

\* handleSVGUpload from the file's text to the await inside fromSVG:
\* this.sdf = new SDF(4), and fromSVG sets the grid size
UploadRead ==
  /\ reads > 0
  /\ reads' = reads - 1
  /\ heap' = (Ref(Made + 1) :> fromSVGCall(NewSDF(Resolution), app.width, app.height))
             @@ heap
  /\ app' = [app EXCEPT !.sdf = Ref(Made + 1)]
  /\ inflight' = inflight \cup {Ref(Made + 1)}
  /\ ret' = NoRet
  /\ UNCHANGED <<noise, lastSeed, sdf, ff, particle, frames, controls, particles>>

\* file.text() rejects: the catch block logs and sets the status line
UploadReadFail ==
  /\ reads > 0
  /\ reads' = reads - 1
  /\ ret' = [op |-> "uploadFailed", ref |-> NullRef]
  /\ UNCHANGED <<noise, lastSeed, sdf, inflight, ff, particle, frames,
                 app, heap, controls, particles>>

\* img.onload of the build on r: fromSVG ends, and handleSVGUpload goes on
\* in the same task with setSDF(this.sdf) and the reset of the particles
UploadBuilt(r, inside) ==
  /\ r \in inflight
  /\ inflight' = inflight \ {r}
  /\ heap' = [heap EXCEPT ![r] = BuildGrids(@, inside)]
  /\ ff' = [ff EXCEPT !.sdf = app.sdf]
  /\ particles' \in AllReset(particles)
  /\ ret' = [op |-> "uploadBuilt", ref |-> r]
  /\ UNCHANGED <<noise, lastSeed, sdf, particle, frames, app, reads, controls>>

\* img.onerror of the build on r: fromSVG rejects, the catch block logs
UploadBuildFail(r) ==
  /\ r \in inflight
  /\ inflight' = inflight \ {r}
  /\ ret' = [op |-> "uploadFailed", ref |-> r]
  /\ UNCHANGED <<noise, lastSeed, sdf, ff, particle, frames,
                 app, heap, reads, controls, particles>>

\* FlowFieldVisualization.regenerate, k being the draw of Math.random()
VisualizationRegenerate(k) ==
  /\ noise' = NoiseOf[RandomSeed(k)]
  /\ lastSeed' = [value |-> RandomSeed(k), defaulted |-> TRUE]
  /\ ff' = [regenerate(ff) EXCEPT
              !.scale = Config.noiseScale,
              !.octaves = FMax(1, FMin(8, Config.noiseOctaves)),
              !.sdf = IF app.sdf # NullRef THEN app.sdf ELSE @]
  /\ particles' \in AllReset(particles)
  /\ ret' = NoRet
  /\ UNCHANGED <<sdf, inflight, particle, frames, app, heap, reads, controls>>

\* the fields of the visualization and of the flow field after
\* handleSVGClear, and the SDF objects
handleSVGClear ==
  /\ heap' = IF app.sdf # NullRef THEN [heap EXCEPT ![app.sdf] = clear(@)]
             ELSE heap
  /\ ff' = [ff EXCEPT !.sdf = NullRef]

\* FlowFieldVisualization.handleSVGClear
SVGClear ==
  /\ handleSVGClear
  /\ app' = [app EXCEPT !.sdf = NullRef]
  /\ ret' = NoRet
  /\ UNCHANGED <<noise, lastSeed, sdf, inflight, particle, frames,
                 reads, controls, particles>>

\* a resize that leaves the fields alone (not the code's)
ResizeKeepsField(width, height) ==
  /\ particles' = AllBound(particles, width * DQ, height * DQ)
  /\ app' = [app EXCEPT !.width = width, !.height = height]
  /\ ret' = NoRet
  /\ UNCHANGED <<noise, lastSeed, sdf, inflight, ff, particle, frames,
                 heap, reads, controls>>

\* FlowFieldVisualization.handleResize to a width x height window
Resize(width, height) ==
  /\ particles' = AllBound(particles, width * DQ, height * DQ)
  /\ IF app.sdf # NullRef
     THEN handleSVGClear
     ELSE UNCHANGED <<heap, ff>>
  /\ app' = [app EXCEPT !.width = width, !.height = height, !.sdf = NullRef]
  /\ ret' = NoRet
  /\ UNCHANGED <<noise, lastSeed, sdf, inflight, particle, frames,
                 reads, controls>>

\* particleSpeed 0.5 of the constructor's config, and draws of the
\* deviation for its particleSpeedVariation 0.5
ConstructorDraws ==
  {[speed |-> DQ \div 2, dev |-> -(DQ \div 2)], [speed |-> DQ \div 2, dev |-> DQ \div 4]}

\* createParticles of the constructor for particleCount = n
NewParticles(n, width, height) ==
  [1 .. n -> {NewParticle(width * DQ, height * DQ, d.speed, d.dev, x, y) :
                d \in ConstructorDraws, x \in StartXs(width * DQ),
                y \in StartYs(height * DQ)}]

\* the visualization after its constructor, with n particles
InitVisualization(n) ==
  /\ noise = NoiseOf[RandomSeed(1)]
  /\ lastSeed = [value |-> RandomSeed(1), defaulted |-> TRUE]
  /\ sdf = NewSDF(Resolution)
  /\ inflight = {}
  /\ ff = NewFlowField(InitialConfig.noiseScale)
  /\ particle = NoParticle
  /\ frames = 0
  /\ ret = NoRet
  /\ app = NewVisualization(2 * Resolution, 2 * Resolution)
  /\ heap = EmptyHeap
  /\ reads = 0
  /\ controls = InitialConfig
  /\ particles \in NewParticles(n, 2 * Resolution, 2 * Resolution)

InitUploads == InitVisualization(1)

\* Math.random() of regenerate: the draw of the constructor again, or another
RegenerateDraws == {1, 2}

NextUploads ==
  \/ UploadStart
  \/ UploadRead
  \/ UploadReadFail
  \/ \E r \in inflight :
       UploadBuilt(r, LeftColumn(heap[r].gridWidth, heap[r].gridHeight))
  \/ \E r \in inflight : UploadBuildFail(r)
  \/ \E k \in RegenerateDraws : VisualizationRegenerate(k)
  \/ SVGClear
  \/ \E w \in BoundWidths, h \in BoundHeights : Resize(w, h)

SpecUploads == InitUploads /\ [][NextUploads]_vars

-----------------------------------------------------------------------------
(* Controls: slider inputs and presets, and handleConfigChange *)

\* positions of the Noise Scale slider (0.0005 to 0.02, in units of 0.0001)
\* and of the Noise Octaves slider (1 to 6)
ScaleSteps == {5, 30, 200}

OctaveSteps == {1, 3, 6}

\* two of the PRESETS of Controls.ts
Presets ==
  {[noiseScale |-> 40, noiseOctaves |-> 2, noiseEvolution |-> 2,
    particleCount |-> 15000],
   [noiseScale |-> 150, noiseOctaves |-> 6, noiseEvolution |-> 10,
    particleCount |-> 50000]}

\* the flow field after handleConfigChange(new), old being this.config as
\* the handler found it
configChanged(f, old, new) ==
  [f EXCEPT
     !.scale = IF new.noiseScale # old.noiseScale THEN new.noiseScale ELSE @,
     !.octaves = IF new.noiseOctaves # old.noiseOctaves
                 THEN FMax(1, FMin(8, new.noiseOctaves)) ELSE @]

\* this.particles.length after adjustParticleCount(targetCount): particles
\* are pushed at the end, or the array is cut to targetCount, which no slider
\* position and no preset puts below 1000, so the first entries stay
adjustParticleCount(currentCount, targetCount) ==
  IF targetCount > currentCount THEN targetCount
  ELSE IF targetCount < currentCount THEN targetCount
  ELSE currentCount

\* this.particles.length after handleConfigChange(new), old being
\* this.config as the handler found it
countChanged(length, old, new) ==
  IF new.particleCount # old.particleCount
  THEN adjustParticleCount(length, new.particleCount)
  ELSE length

\* the input event of a slider: the Controls write the value into their own
\* config object and pass that object to handleConfigChange, which compares
\* it with this.config and then makes it this.config
SliderInput(key, value) ==
  /\ controls' = [controls EXCEPT ![key] = value]
  /\ ff' = configChanged(ff, IF app.config = PanelConfig THEN controls'
                             ELSE InitialConfig, controls')
  /\ app' = [app EXCEPT
               !.config = PanelConfig,
               !.length = countChanged(@, IF app.config = PanelConfig
                                          THEN controls' ELSE InitialConfig,
                                       controls')]
  /\ ret' = [op |-> "configChange", key |-> key]
  /\ UNCHANGED <<noise, lastSeed, sdf, inflight, particle, frames,
                 heap, reads, particles>>

\* Controls.applyPreset: Object.assign on the Controls' config, the
\* callback, and the 'flowfield:regenerate' event, which runs regenerate
ApplyPreset(preset, k) ==
  /\ controls' = preset
  /\ app' = [app EXCEPT
               !.config = PanelConfig,
               !.length = countChanged(@, IF app.config = PanelConfig
                                          THEN preset ELSE InitialConfig,
                                       preset)]
  /\ noise' = NoiseOf[RandomSeed(k)]
  /\ lastSeed' = [value |-> RandomSeed(k), defaulted |-> TRUE]
  /\ ff' = [regenerate(configChanged(ff, IF app.config = PanelConfig THEN preset
                                          ELSE InitialConfig, preset)) EXCEPT
              !.scale = preset.noiseScale,
              !.octaves = FMax(1, FMin(8, preset.noiseOctaves)),
              !.sdf = IF app.sdf # NullRef THEN app.sdf ELSE @]
  /\ particles' \in AllReset(particles)
  /\ ret' = [op |-> "preset"]
  /\ UNCHANGED <<sdf, inflight, particle, frames, heap, reads>>

NextPanel ==
  \/ \E value \in ScaleSteps : SliderInput("noiseScale", value)
  \/ \E value \in OctaveSteps : SliderInput("noiseOctaves", value)
  \/ \E preset \in Presets, k \in RegenerateDraws : ApplyPreset(preset, k)
  \/ \E k \in RegenerateDraws : VisualizationRegenerate(k)

SpecPanel == InitUploads /\ [][NextPanel]_vars

\* positions of the Particle Count slider (1000 to 100000)
CountSteps == {1000, 20000, 100000}

NextCount ==
  \/ \E value \in CountSteps : SliderInput("particleCount", value)
  \/ \E value \in OctaveSteps : SliderInput("noiseOctaves", value)
  \/ \E preset \in Presets, k \in RegenerateDraws : ApplyPreset(preset, k)

SpecCount == InitUploads /\ [][NextCount]_vars

-----------------------------------------------------------------------------
(* FlowFieldVisualization.update: one frame of the animation *)

\* what a frame can touch: the particles, the flow field, the SDF objects
World(ps, f, h) == [particles |-> ps, ff |-> f, heap |-> h]

\* this.sdf of the flow field f
Field(f, h) == IF f.sdf \in DOMAIN h THEN h[f.sdf] ELSE NewSDF(Resolution)

\* an update of particle i that also drags every other particle to the
\* column it arrives at (not the code's)
UpdateAtDragging(w, i, base) ==
  LET p == update(w.particles[i],
                  getVector(w.ff, Field(w.ff, w.heap), w.particles[i].x,
                            w.particles[i].y, base))
  IN  [w EXCEPT !.particles = [j \in DOMAIN @ |->
                                 IF j = i THEN p ELSE [@[j] EXCEPT !.x = p.x]]]

\* particle.update(this.flowField) for the i-th particle, base being the
\* direction of getAngle at it
UpdateAt(w, i, base) ==
  [w EXCEPT !.particles[i] =
     update(@, getVector(w.ff, Field(w.ff, w.heap), @.x, @.y, base))]

RECURSIVE UpdateInOrder(_, _, _)
\* the loop over the particles, taken in the given order
UpdateInOrder(w, order, bases) ==
  IF order = <<>> THEN w
  ELSE UpdateInOrder(UpdateAt(w, Head(order), bases[Head(order)]), Tail(order), bases)

\* if (this.config.noiseEvolution > 0) this.flowField.evolve(...)
Evolved(f, config) ==
  IF config.noiseEvolution > 0 THEN [f EXCEPT !.zOffset = @ + config.noiseEvolution]
  ELSE f

\* the orders in which the n particles of a frame can be taken
Orders(n) == {o \in [1 .. n -> 1 .. n] : \A i, j \in 1 .. n : o[i] = o[j] => i = j}

SetWorld(w) ==
  /\ particles' = w.particles
  /\ ff' = w.ff
  /\ heap' = w.heap

\* FlowFieldVisualization.update with paused = false: evolve, then the loop
AnimationFrame(order, bases) ==
  /\ frames < MaxFrames
  /\ frames' = frames + 1
  /\ SetWorld(UpdateInOrder(World(particles, Evolved(ff, Config), heap), order, bases))
  /\ ret' = [op |-> "frame", order |-> order, bases |-> bases]
  /\ UNCHANGED <<noise, lastSeed, sdf, inflight, particle, app, reads, controls>>

\* positions of the Evolution Speed slider
EvolutionSteps == {0, 1}

\* the field that an upload of the left-column shape has built and attached
BuiltField ==
  BuildGrids(fromSVGCall(NewSDF(Resolution), 2 * Resolution, 2 * Resolution),
             LeftColumn(2, 2))

\* the visualization with two particles, after its constructor or after one
\* upload has been built and attached (UploadStart, UploadRead, UploadBuilt)
InitFrame ==
  /\ noise = NoiseOf[RandomSeed(1)]
  /\ lastSeed = [value |-> RandomSeed(1), defaulted |-> TRUE]
  /\ sdf = NewSDF(Resolution)
  /\ inflight = {}
  /\ particle = NoParticle
  /\ frames = 0
  /\ ret = NoRet
  /\ reads = 0
  /\ controls = InitialConfig
  /\ particles \in NewParticles(2, 2 * Resolution, 2 * Resolution)
  /\ \E uploaded \in BOOLEAN :
       /\ heap = IF uploaded THEN Ref(1) :> BuiltField ELSE EmptyHeap
       /\ app = [NewVisualization(2 * Resolution, 2 * Resolution) EXCEPT
                   !.sdf = IF uploaded THEN Ref(1) ELSE NullRef]
       /\ ff = [NewFlowField(InitialConfig.noiseScale) EXCEPT
                  !.sdf = IF uploaded THEN Ref(1) ELSE NullRef]

\* directions of getAngle at the particles of a frame
FrameDirections == {d \in Directions : d.y >= 0 /\ d.x <= 0}

NextFrame ==
  \/ \E value \in EvolutionSteps : SliderInput("noiseEvolution", value)
  \/ \E order \in Orders(Len(particles)),
        bases \in [1 .. Len(particles) -> FrameDirections] :
       AnimationFrame(order, bases)

SpecFrame == InitFrame /\ [][NextFrame]_vars

-----------------------------------------------------------------------------
(* Claims on Particle.update *)

\* C3: in every update step in which the x coordinate is wrapped (x < 0
\* replaced by width, or x > width replaced by 0) the step ends with
\* prevX = x, for every start position, speed and flow vector; the same
\* holds for y and prevY.
C3_WrapEndsSegment ==
  ret.op = "update" =>
    /\ (ret.wrappedX => particle.prevX = particle.x)
    /\ (ret.wrappedY => particle.prevY = particle.y)

WithinHalf(a, b, w) == a # NaN /\ b # NaN /\ 2 * Abs(a - b) <= w

\* C5: after every update the segment handed to the renderer spans at most
\* half the canvas, |x - prevX| <= width / 2 and |y - prevY| <= height / 2,
\* after any sequence of update, reset, setBounds and setSpeed calls.
C5_SegmentWithinHalfCanvas ==
  ret.op = "update" =>
    /\ WithinHalf(particle.x, particle.prevX, particle.width)
    /\ WithinHalf(particle.y, particle.prevY, particle.height)

-----------------------------------------------------------------------------
(* Claims on the signed distance field *)

\* the cell of the position (x, y) lies outside the grid
OutsideGrid(s, x, y) ==
  LET cell == s.resolution * DQ
  IN  \/ x \div cell < 0
      \/ x \div cell >= s.gridWidth
      \/ y \div cell < 0
      \/ y \div cell >= s.gridHeight

\* C6: for every non-empty binary mask, the all-inside and all-outside masks
\* included, the signed distance of every grid cell after the build is
\* finite, strictly negative on an inside cell and strictly positive on an
\* outside cell.
C6_SignedDistanceSigns ==
  (ret.op = "fromSVG" /\ sdf.loaded) =>
    /\ DOMAIN sdf.grid = DOMAIN ret.inside
    /\ \A i \in DOMAIN ret.inside :
         /\ IsFinite(sdf.grid[i])
         /\ (ret.inside[i] = 1 => sdf.grid[i] < 0)
         /\ (ret.inside[i] = 0 => sdf.grid[i] > 0)

\* a build of the largest grid from the all-inside mask: every cell is at
\* minus the sentinel distance
C6_Witness ==
  /\ ret.op = "fromSVG"
  /\ sdf.loaded
  /\ sdf.gridWidth = MaxGridW
  /\ sdf.gridHeight = TallestGrid
  /\ \A i \in DOMAIN ret.inside : ret.inside[i] = 1
  /\ \A i \in DOMAIN sdf.grid :
       sdf.grid[i] = -((MaxGridW + TallestGrid) * Resolution * DQ)

\* C7: on a loaded field getGradient returns (0,0) for every position whose
\* grid cell lies outside the grid.
C7_GradientZeroOutsideGrid ==
  (ret.op = "getGradient" /\ sdf.loaded /\ OutsideGrid(sdf, ret.x, ret.y)) =>
    ret.value = [x |-> 0, y |-> 0]

\* C8: on a loaded field getDistance returns +infinity for every position
\* whose grid cell lies outside the grid, also when the other coordinate
\* falls on a cell boundary.
C8_DistanceInfiniteOutsideGrid ==
  (ret.op = "getDistance" /\ sdf.loaded /\ OutsideGrid(sdf, ret.x, ret.y)) =>
    ret.value = Inf

-----------------------------------------------------------------------------
(* Claims on FlowField.getVector *)

ZeroVector == [x |-> 0, y |-> 0]

\* the length of v is 1 within 0.001
IsUnit(v) ==
  /\ IsFinite(v.x)
  /\ IsFinite(v.y)
  /\ Abs(v.x * v.x + v.y * v.y - Q * Q) <= (Q * Q) \div 500

\* C1: for every position and every reachable configuration (field attached
\* or not, sdfStrength in [0,2], sdfFalloff >= 1) getVector returns a vector
\* of length 1 or exactly (0,0); a blended vector of length at most 0.0001
\* is returned as (0,0).
C1_UnitOrZero ==
  ret.op = "getVector" => (IsUnit(ret.value) \/ ret.value = ZeroVector)

\* the sampled |distance| is at least the falloff
FarFromBoundary(f, distance) ==
  distance # NaN /\ FAbs(distance) >= f.sdfFalloff

\* the cases in which getVector adds no boundary term at the position (x, y)
NoBoundaryTerm(f, s, x, y) ==
  \/ f.sdf = NullRef
  \/ ~s.loaded
  \/ OutsideGrid(s, x, y)
  \/ FarFromBoundary(f, getDistance(s, x, y))
  \/ getGradient(s, x, y) = ZeroVector

\* C2: getVector returns exactly the noise-only direction (cos(angle),
\* sin(angle)) whenever no field is attached, or the attached field is not
\* loaded, or the sampled |distance| is at least sdfFalloff (the values
\* sampled at positions outside the grid included), or the sampled gradient
\* is (0,0).
C2_NoiseOnlyDirection ==
  (ret.op = "getVector" /\ NoBoundaryTerm(ff, sdf, ret.x, ret.y)) =>
    ret.value = ret.base

\* a sample of an attached, loaded field at full strength, inside the grid
\* and nearer to the boundary than the falloff, where the gradient is (0,0)
C2_Witness ==
  /\ ret.op = "getVector"
  /\ ff.sdf = SdfRef
  /\ sdf.loaded
  /\ ff.sdfStrength = 2 * Q
  /\ ~OutsideGrid(sdf, ret.x, ret.y)
  /\ FLt(FAbs(getDistance(sdf, ret.x, ret.y)), ff.sdfFalloff)
  /\ getGradient(sdf, ret.x, ret.y) = ZeroVector
  /\ ret.value = ret.base

\* getVector blended at its last sample: a loaded field is attached, the
\* sampled |distance| is below the falloff and the gradient is not (0,0)
Blended ==
  /\ ret.op = "getVector"
  /\ ff.sdf # NullRef
  /\ sdf.loaded
  /\ NearBoundary(ff, getDistance(sdf, ret.x, ret.y), getGradient(sdf, ret.x, ret.y))

Dot(a, b) == a.x * b.x + a.y * b.y

\* t is one of the two perpendiculars of g and has dot >= 0 with base
PerpendicularAlong(t, g, base) ==
  /\ IsFinite(g.x) /\ IsFinite(g.y)
  /\ t \in {[x |-> -g.y, y |-> g.x], [x |-> g.y, y |-> -g.x]}
  /\ Dot(t, base) >= 0

\* C22: when getVector blends, for distance < 0 the tangent is the gradient
\* g itself; for distance >= 0 it is one of the two perpendiculars of g, the
\* one with a non-negative dot product with the noise-only direction, and
\* the blended vector is not degenerate.
C22_TangentChoice ==
  Blended =>
    LET d == getDistance(sdf, ret.x, ret.y)
        g == getGradient(sdf, ret.x, ret.y)
    IN  IF d < 0 THEN Tangent(d, g, ret.base) = g
        ELSE /\ PerpendicularAlong(Tangent(d, g, ret.base), g, ret.base)
             /\ IsUnit(ret.value)

\* the mask has an inside and an outside cell
Mixed(inside) == \E i, j \in DOMAIN inside : inside[i] = 1 /\ inside[j] = 0

\* the squared Euclidean distance, in cells, from cell i to the nearest cell
\* of class c, by trying every cell
BruteForce(inside, w, c, i) ==
  LET ds == {((i % w) - (j % w)) * ((i % w) - (j % w))
               + ((i \div w) - (j \div w)) * ((i \div w) - (j \div w)) :
             j \in {k \in DOMAIN inside : inside[k] = c}}
  IN  CHOOSE m \in ds : \A n \in ds : m <= n

\* the grid that distanceTransform2D is given to find the cells of class c
Seeded(inside, w, h, c) ==
  [i \in 0 .. w * h - 1 |-> IF inside[i] = c THEN 0 ELSE w + h]

\* the transform towards class c is exact and stays inside its arrays
ExactTransform(inside, w, h, c) ==
  LET t == distanceTransform2D(Seeded(inside, w, h, c), w, h)
  IN  /\ t.inBounds
      /\ \A i \in 0 .. w * h - 1 : t.dist[i] = BruteForce(inside, w, c, i)

\* C23: for every mask with an inside and an outside cell, and every cell,
\* the two-stage transform ends without indexing outside its scratch arrays
\* and yields the squared Euclidean distance, in cells, to the nearest cell
\* of the opposite class, as a brute-force transform does; the grid of the
\* built field holds its root times the resolution, negative inside.
C23_TransformIsEuclidean ==
  (ret.op = "fromSVG" /\ Mixed(ret.inside)) =>
    /\ ExactTransform(ret.inside, sdf.gridWidth, sdf.gridHeight, 0)
    /\ ExactTransform(ret.inside, sdf.gridWidth, sdf.gridHeight, 1)
    /\ \A i \in DOMAIN ret.inside :
         sdf.grid[i] =
           IF ret.inside[i] = 1
           THEN -(sdf.resolution * SqrtDQ(BruteForce(ret.inside, sdf.gridWidth, 0, i)))
           ELSE sdf.resolution * SqrtDQ(BruteForce(ret.inside, sdf.gridWidth, 1, i))

\* a field built on the largest grid from a mask in which the nearest cell
\* of the opposite class lies one column and two rows away from some cell
C23_Witness ==
  /\ ret.op = "fromSVG"
  /\ Mixed(ret.inside)
  /\ sdf.gridWidth = MaxGridW
  /\ sdf.gridHeight = TallestGrid
  /\ \E i \in DOMAIN ret.inside :
       BruteForce(ret.inside, sdf.gridWidth, 1 - ret.inside[i], i) = 5

\* C25: after a build from a mask with an inside cell, on grids one cell
\* wide or one cell high too, every entry of gradientX and of gradientY is a
\* finite number.
C25_GradientsFinite ==
  (ret.op = "fromSVG" /\ \E i \in DOMAIN ret.inside : ret.inside[i] = 1) =>
    \A i \in DOMAIN ret.inside :
      IsFinite(sdf.gradientX[i]) /\ IsFinite(sdf.gradientY[i])

\* the same on grids at least two cells wide and two cells high
C25_FiniteOnWiderGrids ==
  (/\ ret.op = "fromSVG"
   /\ \E i \in DOMAIN ret.inside : ret.inside[i] = 1
   /\ sdf.gridWidth >= 2
   /\ sdf.gridHeight >= 2) =>
    \A i \in DOMAIN ret.inside :
      IsFinite(sdf.gradientX[i]) /\ IsFinite(sdf.gradientY[i])

\* new Float32Array(n).length
Length(grid) == Cardinality(DOMAIN grid)

GridsEmpty == Length(sdf.grid) = 0 /\ Length(sdf.gradientX) = 0 /\ Length(sdf.gradientY) = 0

\* C15: after a fromSVG call on a field fails, the field has loaded = false
\* and all three grids empty, whether it was new or had been built by an
\* earlier fromSVG call.
C15_FailedBuildLeavesEmpty ==
  ret.op = "fromSVGError" => ~sdf.loaded /\ GridsEmpty

\* C16: in every reachable state of a field, also while a fromSVG call is
\* suspended, loaded = true implies that the distance grid and both gradient
\* grids hold exactly gridWidth * gridHeight cells each.
C16_LoadedGridsMatchSize ==
  sdf.loaded =>
    /\ Length(sdf.grid) = sdf.gridWidth * sdf.gridHeight
    /\ Length(sdf.gradientX) = sdf.gridWidth * sdf.gridHeight
    /\ Length(sdf.gradientY) = sdf.gridWidth * sdf.gridHeight

Cleared(s) ==
  /\ ~s.loaded
  /\ Length(s.grid) = 0 /\ Length(s.gradientX) = 0 /\ Length(s.gradientY) = 0
  /\ \A x \in SampleXs, y \in SampleYs :
       /\ getDistance(s, x, y) = Inf
       /\ getGradient(s, x, y) = [x |-> 0, y |-> 0]

\* C18: after clear() a field has loaded = false and empty grids,
\* getDistance returns +infinity and getGradient (0,0) at every position,
\* and every step that is not a new fromSVG call on the field leaves it so.
C18_ClearedUntilNextCall ==
  /\ [](ret.op = "clear" => Cleared(sdf))
  /\ [][ret.op = "clear" => (ret'.op = "fromSVGCall" \/ Cleared(sdf'))]_vars

-----------------------------------------------------------------------------
(* Claims on the uploads of the visualization *)

\* C13: at every point between event handlers of the visualization, with
\* upload starts, completions and failures, regenerate, clear and resize in
\* any order, the field attached to the flow field is absent (null) or has
\* loaded = true.
C13_AttachedFieldIsLoaded ==
  ff.sdf # NullRef => heap[ff.sdf].loaded

\* C14: after an upload fails (the file read or the image decode rejects)
\* the flow field has no field attached, and the visualization does not
\* refer to the failed field.
C14_FailedUploadDetaches ==
  ret.op = "uploadFailed" =>
    /\ ff.sdf = NullRef
    /\ (ret.ref # NullRef => app.sdf # ret.ref)

\* C17: when the build of an upload finishes successfully, the field
\* attached to the flow field is the one that this build produced, also when
\* another upload was started while the build was in flight.
C17_FinishedBuildIsAttached ==
  ret.op = "uploadBuilt" => ff.sdf = ret.ref

\* C19: after every configuration-change callback of a slider input, at any
\* point in a sequence of inputs, the flow field's scale equals the panel's
\* noiseScale and its octave count equals the panel's noiseOctaves clamped
\* to [1,8].
C19_SlidersReachFlowField ==
  ret.op = "configChange" =>
    /\ ff.scale = controls.noiseScale
    /\ ff.octaves = Max(1, Min(8, controls.noiseOctaves))

\* C24: after every callback that the panel delivers, a slider input or a
\* preset, the number of particles is the particleCount of the panel.
C24_CountFollowsPanel ==
  ret.op \in {"configChange", "preset"} => app.length = controls.particleCount

\* the same for the first callback, which finds the constructor's config
C24_FirstCallbackAdjusts ==
  [][(app.config = OwnConfig /\ ret'.op \in {"configChange", "preset"}) =>
       app'.length = controls'.particleCount]_vars

\* the field r has the grid of the current canvas
BuiltForCanvas(r) ==
  /\ heap[r].gridWidth = CeilDiv(app.width, Resolution)
  /\ heap[r].gridHeight = CeilDiv(app.height, Resolution)

\* C26: under every interleaving of uploads, resizes, clears and
\* regenerates, a loaded field attached to the flow field was built for the
\* current canvas width and height, and a step that changes the canvas size
\* leaves no field attached.
C26_AttachedFieldFitsCanvas ==
  /\ [](ff.sdf # NullRef /\ heap[ff.sdf].loaded => BuiltForCanvas(ff.sdf))
  /\ [][(app'.width # app.width \/ app'.height # app.height) =>
          ff'.sdf = NullRef]_vars

\* a field was being built when the window got narrower; its build has
\* finished since, and the attached field is a later one, loaded
C26_Witness ==
  /\ app.width = Resolution
  /\ Ref(2) \in DOMAIN heap
  /\ ff.sdf = Ref(2)
  /\ heap[Ref(2)].loaded
  /\ heap[Ref(1)].loaded
  /\ heap[Ref(1)].gridWidth = 2

-----------------------------------------------------------------------------
(* Claims on the frame *)

Reversed(order) == [i \in 1 .. Len(order) |-> order[Len(order) + 1 - i]]

\* C20: the updates of a frame leave the flow field (noise table, scale,
\* octaves, zOffset as evolved at the start of the frame, SDF settings), the
\* grids of the SDF objects and every other particle as they are: the
\* particles after the frame are the same for every order of the updates.
C20_FrameIndependentOfOrder ==
  [][frames' = frames + 1 =>
       /\ noise' = noise
       /\ ff' = Evolved(ff, Config)
       /\ heap' = heap
       /\ \A o \in Orders(Len(particles)) :
            particles' = UpdateInOrder(World(particles, ff', heap'), o,
                                       ret'.bases).particles]_vars

\* a frame with a built field attached has moved both particles, the second
\* of the array first, in a flow that the field deflects
C20_Witness ==
  /\ ret.op = "frame"
  /\ ret.order = <<2, 1>>
  /\ ff.sdf # NullRef
  /\ Field(ff, heap).loaded
  /\ \A i \in 1 .. 2 : particles[i].prevX # particles[i].x

-----------------------------------------------------------------------------
(* Claims on the setters of FlowField *)

\* lo <= a <= hi on doubles
FBetween(a, lo, hi) == a # NaN /\ lo <= a /\ a <= hi

\* C11: after any sequence of setOctaves, setSDFStrength and setSDFFalloff
\* calls with arbitrary numbers as arguments the octave count is in [1,8],
\* sdfStrength is in [0,2] and sdfFalloff is at least 1; setOctaves(0)
\* yields 1 and setOctaves(99) yields 8.
C11_SettersClamp ==
  /\ FBetween(ff.octaves, 1, 8)
  /\ FBetween(ff.sdfStrength, 0, 2 * Q)
  /\ FBetween(ff.sdfFalloff, DQ, Inf)
  /\ ((ret.op = "setOctaves" /\ ret.arg = 0) => ff.octaves = 1)
  /\ ((ret.op = "setOctaves" /\ ret.arg = 99) => ff.octaves = 8)

\* C12: after regenerate(s) the noise table and zOffset of the FlowField
\* are those of a new SimplexNoise(s) and 0, whatever seeds, evolve and
\* resetEvolution calls came before: everything getAngle reads besides scale
\* and octaves is determined by s alone.
C12_RegenerateDeterminedBySeed ==
  ret.op = "regenerate" =>
    /\ noise = SimplexNoise(ret.seed)
    /\ ff.zOffset = 0

\* regenerate(42) has run, and not as the first seed of the field
C12_Witness ==
  /\ ret.op = "regenerate"
  /\ ret.seed = IntSeed(42)
  /\ noise = SimplexNoise(IntSeed(42))
  /\ noise # SimplexNoise(IntSeed(41))

\* C21: for every reachable octave count getAngle returns a value in
\* [0, 2*pi]: the total amplitude weight is never zero, and the weighted sum
\* divided by it lies in [-1,1] when every noise sample does.
C21_AngleInRange ==
  ret.op = "getAngle" =>
    /\ ret.maxValue # 0
    /\ FBetween(ret.value, 0, 2 * Q)

-----------------------------------------------------------------------------
(* Claims on the permutation table *)

IsPermutation256(perm) ==
  \A v \in 0..255 : Cardinality({k \in 0..255 : perm[k] = v}) = 1

\* C9: for every integer seed (0 and negative seeds included) the first 256
\* entries of the table hold each value 0..255 exactly once, and entry k of
\* the 512 entries equals entry k mod 256.
C9_PermutationForIntegerSeeds ==
  IsIntegerSeed(lastSeed.value) =>
    /\ IsPermutation256(noise.perm)
    /\ \A k \in 0..511 : noise.perm[k] = noise.perm[k % 256]

\* C10: every seed that reaches buildPermutationTable is an integer, the
\* defaults of the SimplexNoise constructor and of FlowField.regenerate
\* included, so with a default seed every swap index j of the shuffle is an
\* integer with 0 <= j <= i.
C10_SeedsAreIntegers ==
  /\ IsIntegerSeed(lastSeed.value)
  /\ (lastSeed.defaulted => AllSwapsValid(lastSeed.value))

====
